---- MODULE Spec2Model ----
(***************************************************************************)
(* Model of agentic_letters.py: one run of the command-line tool.          *)
(*                                                                         *)
(* main() parses the command line, resolves the API key, builds the        *)
(* client, dispatches one of the four commands, performs the single        *)
(* urlopen call of _request and prints the result.  argparse ends the run  *)
(* itself on a command line it rejects (usage on stderr, exit status 2)    *)
(* and on -h/--help (help on stdout, exit status 0).  Every failure the    *)
(* code classifies goes through die(), which prints CLIError.format() to   *)
(* stderr and exits with status 1.  An exception the code does not catch   *)
(* ends the interpreter with a traceback on stderr and exit status 1       *)
(* without passing through die().                                          *)
(*                                                                         *)
(* Library behaviour is that of CPython 3.10 to 3.13: socket.timeout is    *)
(* TimeoutError, urllib wraps an OSError of the connect/send phase in      *)
(* URLError but not one raised while the response is awaited or read, and  *)
(* Path.exists() re-raises an OSError other than ENOENT, ENOTDIR, EBADF    *)
(* and ELOOP.  HTTP redirects followed inside urlopen are part of the one  *)
(* call; the model sees the final response.  The standard streams are     *)
(* open and encode as UTF-8 (stdout strict, stderr with backslashreplace). *)
(*                                                                         *)
(* Python values and JSON texts are records of one shape                   *)
(* [t, s, n, kids]; kids is a sequence of <<key, value>> pairs (key "" in  *)
(* a list).  Short strings the code strips are sequences of characters;    *)
(* a character with no TLA+ escape is written by its code point, "U+00A0". *)
(* In a string of a value, "\\ud800" to "\\udfff" stand for the code points  *)
(* U+D800 to U+DFFF, the surrogates.                                       *)
(***************************************************************************)
EXTENDS Integers, Sequences, FiniteSets, TLC

VARIABLES
    pc,         \* position of main(): "parse", "main", "dispatch", "request", "print",
                \* "exited"
    argv,       \* sys.argv[1:]
    args,       \* argparse namespace: command, pdf, label, country, letter_type, id
    environ,    \* os.environ.get(ENV_VAR): [set, val]
    fs,         \* what args.pdf names on disk
    api_key,    \* AgenticLettersClient._api_key
    req,        \* the urllib Request handed to urlopen
    resp,       \* what urlopen and resp.read()/e.read() produced
    result,     \* the value _request returned to main
    errs,       \* the CLIErrors passed to die(), in order
    stdout,     \* documents printed to standard output
    stderr,     \* lines printed to standard error
    exitCode,   \* process exit status, -1 while running
    netCalls,   \* number of urlopen invocations
    docReads,   \* number of path.read_bytes() invocations
    calls       \* the functions main() has called so far, in order

vars == <<pc, argv, args, environ, fs, api_key, req, resp, result, errs, stdout, stderr,
          exitCode, netCalls, docReads, calls>>

----------------------------------------------------------------------------
(* Bounds *)

MaxKeyLen == 2
MaxMembers == 2

----------------------------------------------------------------------------
(* Configuration *)

API_BASE == "https://agentic-letters.com/api"
Timeout == 60

\* "K" stands for the text AGENTIC_LETTERS_API_KEY inside a secrets-file line.
ENV_VAR == <<"K">>

----------------------------------------------------------------------------
(* Python values *)

PyNone == [t |-> "None", s |-> "", n |-> 0, kids |-> <<>>]
PyStr(x) == [t |-> "str", s |-> x, n |-> 0, kids |-> <<>>]
PyInt(i) == [t |-> "int", s |-> "", n |-> i, kids |-> <<>>]
PyList(items) == [t |-> "list", s |-> "", n |-> 0, kids |-> items]
PyDict(items) == [t |-> "dict", s |-> "", n |-> 0, kids |-> items]

\* bool(v) as used by `if label:`, `if body`, `if self.code:` ...
Truthy(v) ==
    CASE v.t = "None" -> FALSE
      [] v.t = "str" -> v.s # ""
      [] v.t = "int" -> v.n # 0
      [] OTHER -> v.kids # <<>>

dict_has(d, k) == \E i \in DOMAIN d.kids : d.kids[i][1] = k

\* d.get(k, default)
dict_get(d, k, default) ==
    IF dict_has(d, k)
    THEN d.kids[CHOOSE i \in DOMAIN d.kids : d.kids[i][1] = k][2]
    ELSE default

\* d[k] = v on the item list of an insertion-ordered dict
dict_set(items, k, v) ==
    IF \E i \in DOMAIN items : items[i][1] = k
    THEN [i \in DOMAIN items |-> IF items[i][1] = k THEN <<k, v>> ELSE items[i]]
    ELSE Append(items, <<k, v>>)

\* dict(pairs): later pairs overwrite earlier ones with the same key
RECURSIVE dict_from_pairs(_)
dict_from_pairs(pairs) ==
    IF pairs = <<>> THEN <<>>
    ELSE LET last == pairs[Len(pairs)]
         IN dict_set(dict_from_pairs(SubSeq(pairs, 1, Len(pairs) - 1)), last[1], last[2])

----------------------------------------------------------------------------
(* JSON texts *)

NotJson == [t |-> "garbage", s |-> "", n |-> 0, kids |-> <<>>]
JNull == [t |-> "null", s |-> "", n |-> 0, kids |-> <<>>]
JString(x) == [t |-> "string", s |-> x, n |-> 0, kids |-> <<>>]
JNumber(i) == [t |-> "number", s |-> "", n |-> i, kids |-> <<>>]
JArray(items) == [t |-> "array", s |-> "", n |-> 0, kids |-> items]
JObject(members) == [t |-> "object", s |-> "", n |-> 0, kids |-> members]

\* json.loads on a text that is JSON
RECURSIVE json_loads(_)
json_loads(doc) ==
    CASE doc.t = "null" -> PyNone
      [] doc.t = "string" -> PyStr(doc.s)
      [] doc.t = "number" -> PyInt(doc.n)
      [] doc.t = "array" ->
            PyList([i \in DOMAIN doc.kids |-> <<"", json_loads(doc.kids[i][2])>>])
      [] doc.t = "object" ->
            PyDict(dict_from_pairs(
                [i \in DOMAIN doc.kids |-> <<doc.kids[i][1], json_loads(doc.kids[i][2])>>]))

HexDigits ==
    {"0", "1", "2", "3", "4", "5", "6", "7", "8", "9",
     "a", "b", "c", "d", "e", "f", "A", "B", "C", "D", "E", "F"}

\* whether the code point written at position i of str is one of U+D800 to
\* U+DFFF, which no UTF-8 encoder accepts
surrogate_at(str, i) ==
    /\ i + 5 <= Len(str)
    /\ SubSeq(str, i, i + 2) \in {"\\ud", "\\uD"}
    /\ SubSeq(str, i + 3, i + 3) \in HexDigits \ {"0", "1", "2", "3", "4", "5", "6", "7"}
    /\ SubSeq(str, i + 4, i + 4) \in HexDigits
    /\ SubSeq(str, i + 5, i + 5) \in HexDigits

has_surrogate(str) == \E i \in 1..Len(str) : surrogate_at(str, i)

\* whether str.encode("utf-8") accepts the text json.dumps(v,
\* ensure_ascii=False) returns: no string in v, key or value, holds a
\* surrogate
RECURSIVE encodable(_)
encodable(v) ==
    /\ v.t = "str" => ~has_surrogate(v.s)
    /\ \A i \in DOMAIN v.kids : ~has_surrogate(v.kids[i][1]) /\ encodable(v.kids[i][2])

\* json.dumps
RECURSIVE json_dumps(_)
json_dumps(v) ==
    CASE v.t = "None" -> JNull
      [] v.t = "str" -> JString(v.s)
      [] v.t = "int" -> JNumber(v.n)
      [] v.t = "list" ->
            JArray([i \in DOMAIN v.kids |-> <<"", json_dumps(v.kids[i][2])>>])
      [] v.t = "dict" ->
            JObject([i \in DOMAIN v.kids |-> <<v.kids[i][1], json_dumps(v.kids[i][2])>>])

----------------------------------------------------------------------------
(* Character strings *)

Strs(alphabet, n) == UNION {[1..k -> alphabet] : k \in 0..n}

\* the characters str.strip() removes: those for which str.isspace() holds
Whitespace ==
    {" ", "\t", "\n", "\r", "\f", "U+000B", "U+001C", "U+001D", "U+001E", "U+001F",
     "U+0085", "U+00A0", "U+1680", "U+2000", "U+2001", "U+2002", "U+2003", "U+2004",
     "U+2005", "U+2006", "U+2007", "U+2008", "U+2009", "U+200A", "U+2028", "U+2029",
     "U+202F", "U+205F", "U+3000"}

RECURSIVE lstrip(_, _)
lstrip(str, chars) ==
    IF str # <<>> /\ Head(str) \in chars THEN lstrip(Tail(str), chars) ELSE str

RECURSIVE rstrip(_, _)
rstrip(str, chars) ==
    IF str # <<>> /\ str[Len(str)] \in chars
    THEN rstrip(SubSeq(str, 1, Len(str) - 1), chars)
    ELSE str

\* str.strip(chars)
strip(str, chars) == rstrip(lstrip(str, chars), chars)

\* str.startswith(prefix)
startswith(str, prefix) ==
    Len(str) >= Len(prefix) /\ SubSeq(str, 1, Len(prefix)) = prefix

\* str.split(sep, 1)[1] for a str that contains sep
split_tail(str, sep) ==
    LET i == CHOOSE j \in DOMAIN str :
                 str[j] = sep /\ \A k \in 1..(j - 1) : str[k] # sep
    IN SubSeq(str, i + 1, Len(str))

----------------------------------------------------------------------------
(* Error handling *)

LOCAL_ORIGIN == "local"
SERVER_ORIGIN == "server"
NETWORK_ORIGIN == "network"
ErrorOrigin == {LOCAL_ORIGIN, SERVER_ORIGIN, NETWORK_ORIGIN}

\* the CLIError dataclass; every field but origin is a Python value
CLIError(origin, message, code, detail, field, http_status) ==
    [origin |-> origin, message |-> message, code |-> code, detail |-> detail,
     field |-> field, http_status |-> http_status]

OptLine(tag, v) == IF Truthy(v) THEN << <<tag, v>> >> ELSE <<>>

\* CLIError.format(): the header line, then the optional fields that are truthy
format(err) ==
    << <<"[" \o err.origin \o "]", err.message>> >>
      \o OptLine("  code:", err.code)
      \o OptLine("  http_status:", err.http_status)
      \o OptLine("  detail:", err.detail)
      \o OptLine("  field:", err.field)

\* What a call hands back: a value, a CLIError given to die(), or an exception
\* that nothing catches.
Return(v) == [kind |-> "return", val |-> v]
Die(err) == [kind |-> "die", val |-> err]
Raise(exc) == [kind |-> "raise", val |-> exc]

die_local(message, detail) ==
    Die(CLIError(LOCAL_ORIGIN, PyStr(message), PyNone, detail, PyNone, PyNone))

----------------------------------------------------------------------------
(* Command line *)

Commands == {"send", "status", "list", "credits"}

HelpFlags == {"-h", "--help"}

\* the options of the send subparser, and the words argparse takes for an
\* option rather than for a value
SendOptions ==
    {"--pdf", "--name", "--street", "--zip", "--city", "--country", "--type", "--label"}

OptionStrings == HelpFlags \cup SendOptions

\* what parse_args requires after the command, in the order of add_argument
Required(command) ==
    CASE command = "send" -> <<"--pdf", "--name", "--street", "--zip", "--city">>
      [] command = "status" -> <<"id">>
      [] OTHER -> <<>>

\* the namespace before any argument is stored: the defaults of the
\* subparser; an attribute that is None or that the subparser does not
\* define is "" (label: PyNone)
Namespace(command) ==
    [command |-> command, pdf |-> "", name |-> "", street |-> "", zip |-> "",
     city |-> "",
     country |-> IF command = "send" THEN "DE" ELSE "",
     letter_type |-> IF command = "send" THEN "standard" ELSE "",
     label |-> PyNone,
     id |-> ""]

\* the store action of a send option
store(ns, option, value) ==
    CASE option = "--pdf" -> [ns EXCEPT !.pdf = value]
      [] option = "--name" -> [ns EXCEPT !.name = value]
      [] option = "--street" -> [ns EXCEPT !.street = value]
      [] option = "--zip" -> [ns EXCEPT !.zip = value]
      [] option = "--city" -> [ns EXCEPT !.city = value]
      [] option = "--country" -> [ns EXCEPT !.country = value]
      [] option = "--type" -> [ns EXCEPT !.letter_type = value]
      [] option = "--label" -> [ns EXCEPT !.label = PyStr(value)]

RECURSIVE join(_, _)
join(words, sep) ==
    IF words = <<>> THEN ""
    ELSE IF Len(words) = 1 THEN words[1]
    ELSE words[1] \o sep \o join(Tail(words), sep)

\* parser.error(message): usage and message on stderr, exit status 2
Usage(prog, message) == [kind |-> "usage", val |-> <<prog, message>>]

\* the help action: help on stdout, exit status 0
Help(prog) == [kind |-> "help", val |-> prog]

\* the subparser of ns.command on the words after the command, left to
\* right; seen: the arguments stored so far, extras: the words no argument
\* takes
RECURSIVE parse_sub(_, _, _, _)
parse_sub(words, ns, seen, extras) ==
    LET prog == "agentic_letters " \o ns.command IN
    IF words = <<>>
    THEN LET missing == SelectSeq(Required(ns.command), LAMBDA a : a \notin seen) IN
         IF missing # <<>>
         THEN Usage(prog, "the following arguments are required: " \o join(missing, ", "))
         ELSE IF extras # <<>>
         THEN Usage("agentic_letters", "unrecognized arguments: " \o join(extras, " "))
         ELSE Return(ns)
    ELSE IF Head(words) \in HelpFlags THEN Help(prog)
    ELSE IF ns.command = "send" /\ Head(words) \in SendOptions
    THEN IF Len(words) >= 2 /\ words[2] \notin OptionStrings
         THEN parse_sub(SubSeq(words, 3, Len(words)), store(ns, words[1], words[2]),
                        seen \cup {words[1]}, extras)
         ELSE Usage(prog, "argument " \o Head(words) \o ": expected one argument")
    ELSE IF ns.command = "status" /\ "id" \notin seen /\ Head(words) \notin OptionStrings
    THEN parse_sub(Tail(words), [ns EXCEPT !.id = Head(words)], seen \cup {"id"}, extras)
    ELSE parse_sub(Tail(words), ns, seen, Append(extras, Head(words)))

\* the top-level parser, left to right: an option it does not define is set
\* aside in extras, the first other word is the command, and every word
\* after the command goes to the subparser
RECURSIVE parse_top(_, _)
parse_top(words, extras) ==
    IF words = <<>>
    THEN Usage("agentic_letters", "the following arguments are required: command")
    ELSE IF Head(words) \in HelpFlags THEN Help("agentic_letters")
    ELSE IF Head(words) \in SendOptions
    THEN parse_top(Tail(words), Append(extras, Head(words)))
    ELSE IF Head(words) \in Commands
    THEN parse_sub(Tail(words), Namespace(Head(words)), {}, extras)
    ELSE Usage("agentic_letters",
               "argument command: invalid choice: '" \o Head(words)
                   \o "' (choose from 'send', 'status', 'list', 'credits')")

\* build_parser().parse_args() on sys.argv[1:]; the words are options the
\* parser defines or words that do not begin with "-"
parse_args(words) == parse_top(words, <<>>)

----------------------------------------------------------------------------
(* API key resolution *)

\* the home directory os.path.expanduser puts in place of "~"
HOME == "/root"

\* os.path.expanduser("~/.openclaw/secrets/agentic_letters.env")
ENV_FILE == HOME \o "/.openclaw/secrets/agentic_letters.env"

NoKeyDetail ==
    "Set AGENTIC_LETTERS_API_KEY in environment or in " \o ENV_FILE
        \o ". Get a key at https://agentic-letters.com/buy"

\* the loop over the lines of the secrets file: <<val>> for the first line
\* that yields a non-empty value, <<>> when none does
RECURSIVE scan_lines(_)
scan_lines(lines) ==
    IF lines = <<>> THEN <<>>
    ELSE LET line == strip(Head(lines), Whitespace)
         IN IF startswith(line, ENV_VAR \o <<"=">>)
            THEN LET val == strip(strip(strip(split_tail(line, "="), Whitespace),
                                        {"\""}), {"'"})
                 IN IF val # <<>> THEN <<val>> ELSE scan_lines(Tail(lines))
            ELSE scan_lines(Tail(lines))

\* env: [set, val] is os.environ.get(ENV_VAR); file: [exists, readable, lines]
load_api_key(env, file) ==
    IF env.set /\ env.val # <<>>
    THEN Return(strip(env.val, Whitespace))
    ELSE IF file.exists /\ ~file.readable
    THEN Raise("OSError")
    ELSE IF file.exists /\ scan_lines(file.lines) # <<>>
    THEN Return(scan_lines(file.lines)[1])
    ELSE die_local("No API key found", PyStr(NoKeyDetail))

----------------------------------------------------------------------------
(* base64 *)

B64Alphabet ==
    <<"A","B","C","D","E","F","G","H","I","J","K","L","M","N","O","P",
      "Q","R","S","T","U","V","W","X","Y","Z","a","b","c","d","e","f",
      "g","h","i","j","k","l","m","n","o","p","q","r","s","t","u","v",
      "w","x","y","z","0","1","2","3","4","5","6","7","8","9","+","/">>

B64Char(sextet) == B64Alphabet[sextet + 1]

\* base64.b64encode(bytes).decode()
RECURSIVE b64encode(_)
b64encode(bytes) ==
    IF bytes = <<>> THEN ""
    ELSE IF Len(bytes) = 1
    THEN B64Char(bytes[1] \div 4) \o B64Char((bytes[1] % 4) * 16) \o "=="
    ELSE IF Len(bytes) = 2
    THEN B64Char(bytes[1] \div 4)
           \o B64Char((bytes[1] % 4) * 16 + bytes[2] \div 16)
           \o B64Char((bytes[2] % 16) * 4) \o "="
    ELSE B64Char(bytes[1] \div 4)
           \o B64Char((bytes[1] % 4) * 16 + bytes[2] \div 16)
           \o B64Char((bytes[2] % 16) * 4 + bytes[3] \div 64)
           \o B64Char(bytes[3] % 64)
           \o b64encode(SubSeq(bytes, 4, Len(bytes)))

----------------------------------------------------------------------------
(* API client: request construction *)

NoData == [t |-> "absent", s |-> "", n |-> 0, kids |-> <<>>]

\* AgenticLettersClient._headers; Authorization is "Bearer " followed by the key
headers(key) ==
    [Authorization |-> <<"Bearer", key>>,
     ContentType |-> "application/json",
     UserAgent |-> "agentic-letters-skill/1.0"]

\* the urllib.request.Request that _request builds before it calls urlopen
build_request(key, method, path, body) ==
    [url |-> API_BASE \o path,
     method |-> method,
     headers |-> headers(key),
     data |-> IF Truthy(body) THEN json_dumps(body) ELSE NoData,
     timeout |-> Timeout]

\* payload with `if label is not None:` in place of `if label:`
payload_label_not_none(pdf_b64, a) ==
    PyDict(
        << <<"pdf", PyStr(pdf_b64)>>,
           <<"recipient", PyDict(<< <<"name", PyStr(a.name)>>,
                                    <<"street", PyStr(a.street)>>,
                                    <<"zip", PyStr(a.zip)>>,
                                    <<"city", PyStr(a.city)>>,
                                    <<"country", PyStr(a.country)>> >>)>>,
           <<"type", PyStr(a.letter_type)>> >>
        \o (IF a.label # PyNone THEN << <<"label", a.label>> >> ELSE <<>>))

\* the payload dict of send_letter; label is added only when it is truthy
payload(pdf_b64, a) ==
    PyDict(
        << <<"pdf", PyStr(pdf_b64)>>,
           <<"recipient", PyDict(<< <<"name", PyStr(a.name)>>,
                                    <<"street", PyStr(a.street)>>,
                                    <<"zip", PyStr(a.zip)>>,
                                    <<"city", PyStr(a.city)>>,
                                    <<"country", PyStr(a.country)>> >>)>>,
           <<"type", PyStr(a.letter_type)>> >>
        \o (IF Truthy(a.label) THEN << <<"label", a.label>> >> ELSE <<>>))

\* send_letter up to the call of _request: the checks of the document, the
\* read, the encoding and the payload.  f is what a.pdf names on disk:
\* read "EIO" is a regular file whose read() fails with EIO, so that str(e)
\* carries no file name; kind "staterror" is a path whose stat() fails with an errno that
\* Path.exists() does not swallow (EACCES below an unsearchable directory,
\* ENAMETOOLONG), so that path.exists() raises the OSError.
send_letter(f, a) ==
    IF f.kind = "staterror" THEN Raise("OSError")
    ELSE IF f.kind = "missing" THEN die_local("File not found: " \o a.pdf, PyNone)
    ELSE IF f.kind # "file" THEN die_local("Not a file: " \o a.pdf, PyNone)
    ELSE IF f.read = "EACCES" THEN die_local("Permission denied: " \o a.pdf, PyNone)
    ELSE IF f.read # "ok"
    THEN die_local("Cannot read file: " \o a.pdf, PyStr("[Errno 5] Input/output error"))
    ELSE Return(payload(b64encode(f.bytes), a))

\* whether send_letter gets as far as path.read_bytes()
reads_document(f) == f.kind = "file"

----------------------------------------------------------------------------
(* API client: the urlopen call and its classification *)

\* What the one network call produced.  phase "connect": the connection or
\* the sending of the request failed; "await": the failure struck while the
\* status line was awaited; "read": a status line arrived, and fault says
\* how reading the body went.
NoResp == [phase |-> "none", fault |-> "none", status |-> 0, reason |-> "", body |-> NotJson]

\* urlopen(req, timeout=60): what it returns or raises
urlopen(net) ==
    CASE net.phase = "connect" -> "URLError"
      [] net.phase = "await" /\ net.fault = "timeout" -> "TimeoutError"
      [] net.phase = "await" -> "RemoteDisconnected"
      [] net.phase = "read" /\ net.status \in 200..299 -> "response"
      [] OTHER -> "HTTPError"

\* str(e.reason) of a URLError
reason_text(net) ==
    IF net.fault = "timeout" THEN "timed out" ELSE "[Errno 111] Connection refused"

\* line 97: return json.loads(resp.read()) for a body that is JSON
success_value(net) == json_loads(net.body)

\* non_json_error without detail=str(e.reason)
non_json_error_no_reason(net) ==
    CLIError(SERVER_ORIGIN,
             PyStr("HTTP " \o ToString(net.status) \o " with non-JSON response"),
             PyNone, PyNone, PyNone, PyInt(net.status))

\* lines 102-107: the Server error for an error response whose body cannot
\* be read as JSON
non_json_error(net) ==
    CLIError(SERVER_ORIGIN,
             PyStr("HTTP " \o ToString(net.status) \o " with non-JSON response"),
             PyNone, PyStr(net.reason), PyNone, PyInt(net.status))

\* lines 108-115: the Server error built from a parsed error body
json_error(net, error_body) ==
    CLIError(SERVER_ORIGIN,
             dict_get(error_body, "error", PyStr("HTTP " \o ToString(net.status))),
             dict_get(error_body, "code", PyNone),
             dict_get(error_body, "detail", PyNone),
             dict_get(error_body, "field", PyNone),
             PyInt(net.status))

\* lines 116-121: the Network error for a URLError
unreachable_error(net) ==
    CLIError(NETWORK_ORIGIN, PyStr("Could not reach the API"),
             PyNone, PyStr(reason_text(net)), PyNone, PyNone)

\* lines 122-126: the Network error for a TimeoutError
timeout_error ==
    CLIError(NETWORK_ORIGIN, PyStr("Request timed out after 60 seconds"),
             PyNone, PyNone, PyNone, PyNone)

\* the try/except of _request applied to the outcome of the network call.
\* `except TimeoutError` guards the try body only; inside the HTTPError
\* handler `except Exception` catches whatever e.read() or json.loads raise,
\* and error_body.get is called outside that inner try.
request(net) ==
    LET u == urlopen(net) IN
    CASE u = "response" ->
            IF net.fault = "timeout" THEN Die(timeout_error)
            ELSE IF net.fault # "none" THEN Raise("IncompleteRead")
            ELSE IF net.body = NotJson THEN Raise("JSONDecodeError")
            ELSE Return(success_value(net))
      [] u = "HTTPError" ->
            IF net.fault # "none" \/ net.body = NotJson
            THEN Die(non_json_error(net))
            ELSE LET error_body == json_loads(net.body) IN
                 IF error_body.t # "dict" THEN Raise("AttributeError")
                 ELSE Die(json_error(net, error_body))
      [] u = "URLError" -> Die(unreachable_error(net))
      [] u = "TimeoutError" -> Die(timeout_error)
      [] OTHER -> Raise(u)

----------------------------------------------------------------------------
(* Inputs *)

\* os.environ.get(ENV_VAR): unset, or a string of blanks, tabs and key
\* characters
EnvValues ==
    {[set |-> FALSE, val |-> <<>>]}
        \cup {[set |-> TRUE, val |-> v] : v \in Strs({" ", "\t", "k"}, MaxKeyLen)}

\* lines of the secrets file: a comment, a near miss (blank before "="), and
\* KEY=value lines with or without leading blanks
KeyLines ==
    {lead \o ENV_VAR \o <<"=">> \o v :
        lead \in {<<>>, <<" ">>, <<"\t">>}, v \in Strs({" ", "\"", "'", "k"}, MaxKeyLen)}

FileLines == {<<"#">>, ENV_VAR \o <<" ", "=", "k">>} \cup KeyLines

\* the secrets file: absent, present but unreadable, or up to two lines
SecretsFiles ==
    {[exists |-> FALSE, readable |-> FALSE, lines |-> <<>>],
     [exists |-> TRUE, readable |-> FALSE, lines |-> <<>>]}
        \cup {[exists |-> TRUE, readable |-> TRUE, lines |-> l] :
                l \in {<<>>} \cup {<<a>> : a \in FileLines}
                        \cup {<<a, b>> : a \in FileLines, b \in {<<"#">>} \cup KeyLines}}

\* for each value of the environment variable, every way load_api_key can
\* end over the secrets files above
LoadApiKeyOutcomes == [e \in EnvValues |-> {load_api_key(e, f) : f \in SecretsFiles}]

\* document contents: lengths 0 to 4 cover every padding of base64
PdfContents == {<<>>, <<37>>, <<37, 255>>, <<37, 80, 68>>, <<37, 80, 68, 70>>}

\* what args.pdf names on disk
FsStates ==
    {[kind |-> k, read |-> "ok", bytes |-> <<>>] : k \in {"missing", "staterror", "dir"}}
        \cup {[kind |-> "file", read |-> r, bytes |-> <<>>] : r \in {"EACCES", "EIO"}}
        \cup {[kind |-> "file", read |-> "ok", bytes |-> b] : b \in PdfContents}

NoFs == [kind |-> "missing", read |-> "ok", bytes |-> <<>>]

\* the required options of send, with their values
Recipient ==
    <<"--pdf", "letter.pdf", "--name", "Erika Mustermann", "--street", "Heidestr. 17",
      "--zip", "51147", "--city", "Koeln">>

\* command lines: the four commands, complete (send with no label, an empty
\* one, a label, and a country and type of its own) and incomplete, a word
\* that is no command, no word at all, and requests for help
Argvs ==
    {<<"send">> \o Recipient \o rest :
        rest \in {<<>>, <<"--label", "">>, <<"--label", "Invoice 7">>,
                  <<"--country", "AT", "--type", "express">>,
                  <<"--label">>, <<"extra">>}}
      \cup {<<"send", "--name", "Erika Mustermann">>, <<"send", "--help">>,
            <<"status", "L-1">>, <<"status">>, <<"status", "L-1", "extra">>,
            <<"list">>, <<"list", "-h">>, <<"credits">>, <<"credits", "extra">>,
            <<>>, <<"--help">>, <<"bogus">>, <<"--label", "list">>, <<"--pdf", "-h">>}

StatusCodes == {200, 422, 500}

ReasonPhrase(status) ==
    CASE status = 200 -> "OK"
      [] status = 422 -> "Unprocessable Entity"
      [] OTHER -> "Internal Server Error"

ErrorKeys == {"error", "code", "detail", "field"}

Members ==
    {<<k, JString("invalid zip")>> : k \in ErrorKeys} \cup {<<"field", JString("zip")>>}

\* JSON objects of up to MaxMembers string members; names may repeat
FlatObjects == {JObject(m) : m \in Strs(Members, MaxMembers)}

OtherJson ==
    {JNull, JString("ok"), JNumber(7), JString("a\\udfff"),
     JObject(<< <<"note", JString("\\ud800")>> >>),
     JArray(<< <<"", JNumber(1)>> >>),
     JObject(<< <<"error", JNull>>, <<"code", JString("")>> >>),
     JObject(<< <<"letter", JObject(<< <<"id", JString("L-1")>>,
                                       <<"pages", JArray(<< <<"", JNumber(1)>>,
                                                            <<"", JNumber(2)>> >>)>> >>)>>,
                <<"credits", JNumber(0)>> >>)}

Bodies == {NotJson} \cup FlatObjects \cup OtherJson

NetOutcomes ==
    {[phase |-> "connect", fault |-> f, status |-> 0, reason |-> "", body |-> NotJson] :
        f \in {"refused", "timeout"}}
      \cup {[phase |-> "await", fault |-> f, status |-> 0, reason |-> "", body |-> NotJson] :
                f \in {"reset", "timeout"}}
      \cup {[phase |-> "read", fault |-> f, status |-> c, reason |-> ReasonPhrase(c),
             body |-> NotJson] : f \in {"reset", "timeout"}, c \in StatusCodes}
      \cup {[phase |-> "read", fault |-> "none", status |-> c, reason |-> ReasonPhrase(c),
             body |-> b] : c \in StatusCodes, b \in Bodies}

----------------------------------------------------------------------------
(* The process *)

Init ==
    /\ pc = "parse"
    /\ argv \in Argvs
    /\ args = Namespace("")
    /\ environ \in EnvValues
    /\ IF argv # <<>> /\ Head(argv) = "send" THEN fs \in FsStates ELSE fs = NoFs
    /\ api_key = <<>>
    /\ req = <<>>
    /\ resp = NoResp
    /\ result = PyNone
    /\ errs = <<>>
    /\ stdout = <<>>
    /\ stderr = <<>>
    /\ exitCode = -1
    /\ netCalls = 0
    /\ docReads = 0
    /\ calls = <<>>

\* die(err): print err.format() to stderr, sys.exit(1)
die(err) ==
    /\ errs' = Append(errs, err)
    /\ stderr' = stderr \o format(err)
    /\ exitCode' = 1
    /\ pc' = "exited"

\* an exception nothing catches: the interpreter prints the traceback to
\* stderr and exits with status 1
uncaught(exc) ==
    /\ errs' = errs
    /\ stderr' = Append(stderr, <<"Traceback", PyStr(exc)>>)
    /\ exitCode' = 1
    /\ pc' = "exited"

\* how a call that did not return ends the process
halt(o) == IF o.kind = "die" THEN die(o.val) ELSE uncaught(o.val)

\* what print_help() writes, as a document on stdout
HelpText(prog) == [t |-> "help", s |-> "usage: " \o prog, n |-> 0, kids |-> <<>>]

\* main: args = build_parser().parse_args()
ParseArgs ==
    /\ pc = "parse"
    /\ LET o == parse_args(argv) IN
          CASE o.kind = "return" ->
                  /\ args' = o.val
                  /\ pc' = "main"
                  /\ UNCHANGED <<stdout, stderr, exitCode>>
            [] o.kind = "usage" ->
                  /\ stderr' = stderr \o << <<"usage:", PyStr(o.val[1])>>,
                                            <<o.val[1] \o ": error:", PyStr(o.val[2])>> >>
                  /\ exitCode' = 2
                  /\ pc' = "exited"
                  /\ UNCHANGED <<args, stdout>>
            [] OTHER ->
                  /\ stdout' = Append(stdout, HelpText(o.val))
                  /\ exitCode' = 0
                  /\ pc' = "exited"
                  /\ UNCHANGED <<args, stderr>>
    /\ UNCHANGED <<argv, environ, fs, api_key, req, resp, result, errs, netCalls, docReads,
                   calls>>

\* main: api_key = load_api_key(); client = AgenticLettersClient(api_key)
LoadApiKey ==
    /\ pc = "main"
    /\ calls' = Append(calls, "load_api_key")
    /\ \E o \in LoadApiKeyOutcomes[environ] :
          IF o.kind = "return"
          THEN /\ api_key' = o.val
               /\ pc' = "dispatch"
               /\ UNCHANGED <<errs, stderr, exitCode>>
          ELSE /\ halt(o)
               /\ UNCHANGED api_key
    /\ UNCHANGED <<argv, args, environ, fs, req, resp, result, stdout, netCalls, docReads>>

\* main: client.send_letter(...), up to the urlopen call inside _request
SendLetter ==
    /\ pc = "dispatch"
    /\ args.command = "send"
    /\ calls' = Append(calls, "send_letter")
    /\ docReads' = IF reads_document(fs) THEN docReads + 1 ELSE docReads
    /\ LET o == send_letter(fs, args) IN
          IF o.kind = "return"
          THEN /\ req' = Append(req, build_request(api_key, "POST", "/letters", o.val))
               /\ pc' = "request"
               /\ UNCHANGED <<errs, stderr, exitCode>>
          ELSE /\ halt(o)
               /\ UNCHANGED req
    /\ UNCHANGED <<argv, args, environ, fs, api_key, resp, result, stdout, netCalls>>

\* main: client.get_letter(args.id), up to the urlopen call
GetLetter ==
    /\ pc = "dispatch"
    /\ args.command = "status"
    /\ calls' = Append(calls, "get_letter")
    /\ req' = Append(req, build_request(api_key, "GET", "/letters/" \o args.id, PyNone))
    /\ pc' = "request"
    /\ UNCHANGED <<argv, args, environ, fs, api_key, resp, result, errs, stdout, stderr,
                   exitCode, netCalls, docReads>>

\* main: client.list_letters(), up to the urlopen call
ListLetters ==
    /\ pc = "dispatch"
    /\ args.command = "list"
    /\ calls' = Append(calls, "list_letters")
    /\ req' = Append(req, build_request(api_key, "GET", "/letters", PyNone))
    /\ pc' = "request"
    /\ UNCHANGED <<argv, args, environ, fs, api_key, resp, result, errs, stdout, stderr,
                   exitCode, netCalls, docReads>>

\* main: client.get_credits(), up to the urlopen call
GetCredits ==
    /\ pc = "dispatch"
    /\ args.command = "credits"
    /\ calls' = Append(calls, "get_credits")
    /\ req' = Append(req, build_request(api_key, "GET", "/credits", PyNone))
    /\ pc' = "request"
    /\ UNCHANGED <<argv, args, environ, fs, api_key, resp, result, errs, stdout, stderr,
                   exitCode, netCalls, docReads>>

\* Request with one more attempt after a Network error
RequestRetry ==
    /\ pc = "request"
    /\ \E net \in NetOutcomes :
          /\ netCalls' = netCalls + 1
          /\ resp' = net
          /\ LET o == request(net) IN
                IF o.kind = "return"
                THEN /\ result' = o.val
                     /\ pc' = "print"
                     /\ UNCHANGED <<errs, stderr, exitCode>>
                ELSE IF o.kind = "die" /\ o.val.origin = NETWORK_ORIGIN /\ netCalls = 0
                THEN UNCHANGED <<pc, result, errs, stderr, exitCode>>
                ELSE /\ halt(o)
                     /\ UNCHANGED result
    /\ UNCHANGED <<argv, args, environ, fs, api_key, req, stdout, docReads, calls>>

\* _request from urlopen on: the one network call, then return, die or raise
Request ==
    /\ pc = "request"
    /\ \E net \in NetOutcomes :
          /\ netCalls' = netCalls + 1
          /\ resp' = net
          /\ LET o == request(net) IN
                IF o.kind = "return"
                THEN /\ result' = o.val
                     /\ pc' = "print"
                     /\ UNCHANGED <<errs, stderr, exitCode>>
                ELSE /\ halt(o)
                     /\ UNCHANGED result
    /\ UNCHANGED <<argv, args, environ, fs, api_key, req, stdout, docReads, calls>>

\* main: print(json.dumps(result, indent=2, ensure_ascii=False)); exit status
\* 0.  With ensure_ascii=False a lone surrogate reaches sys.stdout.write
\* unescaped, and the encoder of stdout raises UnicodeEncodeError before
\* anything is written.
PrintResult ==
    /\ pc = "print"
    /\ IF encodable(result)
       THEN /\ stdout' = Append(stdout, json_dumps(result))
            /\ exitCode' = 0
            /\ pc' = "exited"
            /\ UNCHANGED <<errs, stderr>>
       ELSE /\ uncaught("UnicodeEncodeError")
            /\ UNCHANGED stdout
    /\ UNCHANGED <<argv, args, environ, fs, api_key, req, resp, result, netCalls,
                   docReads, calls>>

Next ==
    \/ ParseArgs
    \/ LoadApiKey
    \/ SendLetter
    \/ GetLetter
    \/ ListLetters
    \/ GetCredits
    \/ Request
    \/ PrintResult

Spec == Init /\ [][Next]_vars

----------------------------------------------------------------------------
(* Properties *)

Exited == pc = "exited"

\* parse_args returned: the run is an invocation of one of the four commands
Parsed == args.command \in Commands

Called(fn) == \E i \in DOMAIN calls : calls[i] = fn

\* a status line arrived and the body was read to its end
GotResponse == resp.phase = "read" /\ resp.fault = "none"

SuccessStatus == resp.status \in 200..299

DocumentReadable == fs.kind = "file" /\ fs.read = "ok"

\* member names of a JSON object text, and the text of member k (the last
\* one of that name, which is the one a JSON parser keeps)
Names(doc) == IF doc.t = "object" THEN {doc.kids[i][1] : i \in DOMAIN doc.kids} ELSE {}

HasMember(doc, k) == k \in Names(doc)

MemberText(doc, k) ==
    doc.kids[CHOOSE i \in DOMAIN doc.kids :
                 doc.kids[i][1] = k /\ \A j \in DOMAIN doc.kids : j > i => doc.kids[j][1] # k][2]

MemberValue(doc, k, default) ==
    IF HasMember(doc, k) THEN json_loads(MemberText(doc, k)) ELSE default

RECURSIVE UniqueNames(_)
UniqueNames(doc) ==
    /\ doc.t = "object" =>
          \A i, j \in DOMAIN doc.kids : doc.kids[i][1] = doc.kids[j][1] => i = j
    /\ \A i \in DOMAIN doc.kids : UniqueNames(doc.kids[i][2])

\* C1: an invocation of one of the four commands that ends without an
\* ApiResult printed has ended through die() with exactly one CLIError, whose
\* origin is local, network or server, and what stderr holds is that error's
\* block; no failure ends the process unclassified.
C1_EveryFailureClassified ==
    (Exited /\ Parsed /\ stdout = <<>>) =>
        /\ Len(errs) = 1
        /\ errs[1].origin \in ErrorOrigin
        /\ stderr = format(errs[1])

\* C2: send_letter on a document that is missing, not a regular file or not
\* readable ends with one Local error and no network call, and the message
\* names the violated precondition (not found, not a file, permission
\* denied, or cannot read with the OS detail).
C2_BadDocumentIsLocal ==
    (Exited /\ Called("send_letter") /\ ~DocumentReadable) =>
        /\ netCalls = 0
        /\ Len(errs) = 1
        /\ errs[1].origin = LOCAL_ORIGIN
        /\ fs.kind = "missing" => errs[1].message = PyStr("File not found: " \o args.pdf)
        /\ fs.kind = "dir" => errs[1].message = PyStr("Not a file: " \o args.pdf)
        /\ (fs.kind = "file" /\ fs.read = "EACCES") =>
              errs[1].message = PyStr("Permission denied: " \o args.pdf)
        /\ (fs.kind = "file" /\ fs.read = "EIO") =>
              /\ errs[1].message = PyStr("Cannot read file: " \o args.pdf)
              /\ Truthy(errs[1].detail)

\* C3: a non-success status S with a JSON body ends with one Server error
\* with http_status S, message the body's `error` (or "HTTP S" when absent),
\* and code, detail, field the body's values (None when absent).
C3_JsonErrorBodyIsServerError ==
    (Exited /\ GotResponse /\ ~SuccessStatus /\ resp.body # NotJson) =>
        errs = << CLIError(SERVER_ORIGIN,
                           MemberValue(resp.body, "error",
                                       PyStr("HTTP " \o ToString(resp.status))),
                           MemberValue(resp.body, "code", PyNone),
                           MemberValue(resp.body, "detail", PyNone),
                           MemberValue(resp.body, "field", PyNone),
                           PyInt(resp.status)) >>

\* C4: a non-success status S with a body that is not JSON ends with one
\* Server error with http_status S, detail the reason phrase, and neither
\* code nor field.
C4_NonJsonErrorBody ==
    (Exited /\ GotResponse /\ ~SuccessStatus /\ resp.body = NotJson) =>
        /\ Len(errs) = 1
        /\ errs[1].origin = SERVER_ORIGIN
        /\ errs[1].http_status = PyInt(resp.status)
        /\ errs[1].detail = PyStr(resp.reason)
        /\ errs[1].code = PyNone
        /\ errs[1].field = PyNone
        /\ stderr = format(errs[1])

C4_Witness ==
    /\ Exited /\ GotResponse /\ resp.status = 500 /\ resp.body = NotJson
    /\ Len(errs) = 1
    /\ errs[1].detail = PyStr("Internal Server Error")

\* C5: a transport failure or a timeout, whether it strikes while connecting,
\* while the response is awaited or while it is read, ends with one Network
\* error without http_status, code or field; for a timeout the error says so.
C5_TransportFailureIsNetwork ==
    (Exited /\ resp.fault # "none") =>
        /\ Len(errs) = 1
        /\ errs[1].origin = NETWORK_ORIGIN
        /\ errs[1].http_status = PyNone
        /\ errs[1].code = PyNone
        /\ errs[1].field = PyNone
        /\ resp.fault = "timeout" =>
              \/ errs[1].message = PyStr("Request timed out after 60 seconds")
              \/ errs[1].detail = PyStr("timed out")

\* C6: a run issues at most one network call, exactly one by the time it
\* exits when the key was resolved and the local preconditions held, and a
\* failure of any origin ends the run: no request follows it.
C6_SingleAttempt ==
    /\ netCalls <= 1
    /\ Len(req) <= 1
    /\ (Exited /\ Len(calls) = 2 /\ (args.command = "send" => DocumentReadable)) =>
          netCalls = 1
    /\ (errs # <<>> \/ exitCode # -1) => Exited

C6_Witness ==
    /\ Exited /\ netCalls = 1 /\ Len(req) = 1
    /\ Len(errs) = 1 /\ errs[1].origin = NETWORK_ORIGIN

Succeeded == exitCode = 0 /\ Len(stdout) = 1 /\ stderr = <<>> /\ errs = <<>>

Failed == exitCode = 1 /\ stdout = <<>> /\ Len(errs) = 1 /\ stderr = format(errs[1])

\* C7: an invocation of one of the four commands that has ended is in
\* exactly one of succeeded (result on stdout, exit status 0) and failed (the
\* error block on stderr, exit status 1, nothing on stdout); until then
\* nothing has been written.
C7_TwoTerminalStates ==
    /\ (Exited /\ Parsed) => (Succeeded \/ Failed) /\ ~(Succeeded /\ Failed)
    /\ ~Exited => exitCode = -1 /\ stdout = <<>> /\ stderr = <<>>

\* C8: for every operation, after a success status with a JSON body the value
\* returned is the parsed body and what main printed is that value: it has
\* the same members with the same values, and it is the body itself,
\* member for member, when no member name repeats in the body.
C8_ResultForwarded ==
    (Exited /\ GotResponse /\ SuccessStatus /\ resp.body # NotJson) =>
        /\ exitCode = 0
        /\ Len(stdout) = 1
        /\ result = json_loads(resp.body)
        /\ json_loads(stdout[1]) = json_loads(resp.body)
        /\ Names(stdout[1]) = Names(resp.body)
        /\ \A k \in Names(resp.body) : MemberText(stdout[1], k) = MemberText(resp.body, k)
        /\ UniqueNames(resp.body) => stdout[1] = resp.body

\* C9: the body posted to /letters always has pdf, recipient (name, street,
\* zip, city, country) and type, and has label exactly when the label given
\* is a non-empty string, then with that value.
C9_LabelOnlyWhenNonEmpty ==
    \A i \in DOMAIN req :
        req[i].method = "POST" =>
            LET d == req[i].data IN
            /\ req[i].url = API_BASE \o "/letters"
            /\ d.t = "object"
            /\ {"pdf", "recipient", "type"} \subseteq Names(d)
            /\ {"name", "street", "zip", "city", "country"}
                  \subseteq Names(MemberText(d, "recipient"))
            /\ HasMember(d, "label") <=> (args.label.t = "str" /\ args.label.s # "")
            /\ HasMember(d, "label") => MemberText(d, "label") = JString(args.label.s)

C9_Witness ==
    /\ Len(req) = 1 /\ req[1].method = "POST"
    /\ args.label = PyStr("")
    /\ ~HasMember(req[1].data, "label")
    /\ MemberText(req[1].data, "pdf") = JString("JVBERg==")

\* C10: every request issued carries a non-empty bearer token: once
\* load_api_key has returned the credential is non-empty, and when it did not
\* return with an error it ended with the Local error "No API key found"
\* before any document read or network call.
C10_NonEmptyCredential ==
    /\ \A i \in DOMAIN req : req[i].headers.Authorization[2] # <<>>
    /\ Len(calls) >= 2 => api_key # <<>>
    /\ (Exited /\ calls = <<"load_api_key">> /\ errs # <<>>) =>
          /\ errs[1].origin = LOCAL_ORIGIN
          /\ errs[1].message = PyStr("No API key found")
          /\ docReads = 0
          /\ netCalls = 0

====
